---- MODULE Spec2Model ----
(***************************************************************************)
(* Greedy separation of points by axis-parallel lines (src/main.c).        *)
(*                                                                         *)
(* The state is the program's global state: the point array, the two       *)
(* pointer arrays x_points / y_points, the connection matrix, the pool of  *)
(* pending lines, the committed lines and the four unsigned counters,      *)
(* plus the position of main() and the files it reads and writes.          *)
(*                                                                         *)
(* Pointers are modelled by the index of the slot they point to, NULL by   *)
(* -1.  A line's coordinate is a float that is always half an integer      *)
(* (the mean of two ints); the model stores twice the coordinate (coord2)  *)
(* so that the comparison  (float)x > ln->coord  is  2*x > coord2.  The    *)
(* coordinates of the model are small, so the float arithmetic is exact.   *)
(*                                                                         *)
(* An unsigned int is modelled by its 32 bits read as a signed number      *)
(* (2^32 - 1 is -1), which the model's small sums and differences leave    *)
(* right; a comparison the program makes in unsigned int goes through      *)
(* ULess.                                                                  *)
(***************************************************************************)
EXTENDS Integers, Sequences, FiniteSets, TLC

\* ------------------------------------------------------------ constants
MAX_POINTS == 100
NULL == -1
V == 0
H == 1

\* ------------------------------------------------------------ bounds
\* most points in one instance file of a run that meets the input contract
MaxN == 3
\* most points in one instance file of the wider runs (SpecWide)
MaxWideN == 4
\* coordinates of the modelled points are 0..MaxCoord
MaxCoord == 2
\* most points in one instance file of a run that may break the input contract
MaxBadN == 3

VARIABLES
    files,          \* the input directory: files[k] is instance k
    file_index,     \* main: the for loop's index
    file_num,       \* main: files done
    pc,             \* main: the statement about to run
    num_points, num_edges, num_lines, num_all_lines,
    mypoints,       \* slot -> [x, y]
    conn,           \* conn[i][j]: mypoints[i].connections[j] != NULL
    x_points, y_points,   \* position -> slot, or NULL
    all_lines,      \* slot -> [axis, coord2]
    lines,          \* position -> slot of all_lines, or NULL
    final_lines,    \* position -> slot of all_lines, or NULL
    output,         \* the output files written so far
    iter            \* executions of the while body in this instance

vars == <<files, file_index, file_num, pc, num_points, num_edges, num_lines,
          num_all_lines, mypoints, conn, x_points, y_points, all_lines, lines,
          final_lines, output, iter>>

\* the slots of the program's arrays that a modelled run can reach
Cap == IF MaxN >= MaxWideN /\ MaxN >= MaxBadN THEN MaxN
       ELSE IF MaxWideN >= MaxBadN THEN MaxWideN ELSE MaxBadN
PSlots == 0 .. (Cap - 1)
LSlots == 0 .. (2 * Cap - 1)
\* iter stops counting here
IterCap == 2 * Cap + 1

\* a < b for two unsigned ints given by their bits
ULess(a, b) == IF (a < 0) = (b < 0) THEN a < b ELSE b < 0

Min(S) == CHOOSE m \in S : \A k \in S : m <= k

\* ------------------------------------------------------------ input files
Point == [x : 0 .. MaxCoord, y : 0 .. MaxCoord]

PointLists(n) == UNION {[1 .. k -> Point] : k \in 0 .. n}

\* the input contract: distinct points, ascending by x
ValidList(p) ==
    /\ \A i, j \in 1 .. Len(p) : i < j => p[i] # p[j]
    /\ \A i \in 1 .. (Len(p) - 1) : p[i].x <= p[i + 1].x

DataFile(d, p) == [kind |-> "data", declared |-> d, pts |-> p]
MissingFile == [kind |-> "missing", declared |-> 0, pts |-> <<>>]
EmptyFile == [kind |-> "empty", declared |-> 0, pts |-> <<>>]

\* files the reader turns down: absent, empty, or a count that is not the
\* number of coordinate pairs
RejectedFiles ==
    {MissingFile, EmptyFile, DataFile(1, <<>>),
     DataFile(0, <<[x |-> 0, y |-> 0]>>), DataFile(2, <<[x |-> 1, y |-> 0]>>)}

\* the lists of at most n points that meet the input contract, built point by point
RECURSIVE ValidLists(_)
ValidLists(n) ==
    IF n = 0
    THEN {<<>>}
    ELSE LET shorter == ValidLists(n - 1)
         IN  shorter \cup {Append(p, q) : <<p, q>> \in
                              {pq \in shorter \X Point : ValidList(Append(pq[1], pq[2]))}}

ValidFiles == {DataFile(Len(p), p) : p \in ValidLists(MaxN)}

AnyFiles == {DataFile(Len(p), p) : p \in PointLists(MaxBadN)}

FileAt(k) == IF k \in DOMAIN files THEN files[k] ELSE MissingFile

\* the instance main() is working on
Cur == FileAt(file_index)
ValidInstance == Cur.kind = "data" /\ Cur.declared = Len(Cur.pts) /\ ValidList(Cur.pts)

\* ------------------------------------------------------------ initial state
InitGlobals ==
    /\ file_index = 1
    /\ file_num = 0
    /\ pc = "read"
    /\ num_points = 0
    /\ num_edges = 0
    /\ num_lines = 0
    /\ num_all_lines = 0
    /\ mypoints = [s \in PSlots |-> [x |-> 0, y |-> 0]]
    /\ conn = [i \in PSlots |-> [j \in PSlots |-> FALSE]]
    /\ x_points = [s \in PSlots |-> NULL]
    /\ y_points = [s \in PSlots |-> NULL]
    /\ all_lines = [s \in LSlots |-> [axis |-> V, coord2 |-> 0]]
    /\ lines = [s \in LSlots |-> NULL]
    /\ final_lines = [s \in LSlots |-> NULL]
    /\ output = <<>>
    /\ iter = 0

Init ==
    /\ files \in {<<f>> : f \in ValidFiles \cup RejectedFiles}
    /\ InitGlobals

InitWide ==
    /\ files \in {<<f>> : f \in {DataFile(Len(p), p) : p \in ValidLists(MaxWideN)}
                                \cup RejectedFiles}
    /\ InitGlobals

InitAny ==
    /\ files \in {<<f>> : f \in AnyFiles \cup RejectedFiles}
    /\ InitGlobals

\* ------------------------------------------------------------ read_file
\* fscanf("%d", &num_points), then one slot per coordinate pair
ReadPoints(f) ==
    LET k == IF Len(f.pts) < MAX_POINTS THEN Len(f.pts) ELSE MAX_POINTS
    IN  /\ num_points' = f.declared
        /\ mypoints' = [s \in PSlots |-> IF s < k THEN f.pts[s + 1] ELSE mypoints[s]]
        /\ x_points' = [s \in PSlots |-> IF s < k THEN s ELSE x_points[s]]
        /\ y_points' = [s \in PSlots |-> IF s < k THEN s ELSE y_points[s]]

read_status(f) ==
    CASE f.kind = "missing" -> "FILE_NOT_EXISTS"
      [] f.kind = "empty" -> "FILE_NO_POINTS"
      [] OTHER ->
            LET k == IF Len(f.pts) < MAX_POINTS THEN Len(f.pts) ELSE MAX_POINTS
            IN  IF k # f.declared THEN "FILE_ERROR_POINTS" ELSE "FILE_SUCCESS"

\* the for loop's step after a continue: the files past the last one of the
\* directory are all absent, and an absent file changes nothing but the index
NextIndex == IF file_index < Len(files) THEN file_index + 1 ELSE MAX_POINTS

ReadFile ==
    /\ pc = "read"
    /\ file_index < MAX_POINTS
    /\ LET f == Cur
           st == read_status(f)
       IN  /\ IF f.kind = "data"
                THEN ReadPoints(f)
                ELSE UNCHANGED <<num_points, mypoints, x_points, y_points>>
           /\ IF st = "FILE_SUCCESS"
                THEN pc' = "sort" /\ UNCHANGED file_index
                ELSE pc' = "read" /\ file_index' = NextIndex
    /\ iter' = 0
    /\ UNCHANGED <<files, file_num, num_edges, num_lines, num_all_lines, conn,
                   all_lines, lines, final_lines, output>>

\* ------------------------------------------------------------ qsort
\* (a slip: the x are compared)
y_compare_by_x(a, b) == mypoints[a].x - mypoints[b].x

\* the difference of the two y (an int; the model's coordinates are small)
y_compare(a, b) == mypoints[a].y - mypoints[b].y

\* yo holds the slots of positions 0..num_points-1 in an order qsort may leave
SortedBy(yo) ==
    \A i, j \in 0 .. (num_points - 1) : i < j => y_compare(yo[i], yo[j]) <= 0

\* every order of y_points[0..num_points-1] that is ascending by y_compare;
\* the order among equal keys is not specified for qsort
YOrders ==
    LET idx == 0 .. (num_points - 1)
        perms == {f \in [idx -> idx] : \A i, j \in idx : i # j => f[i] # f[j]}
    IN  {yo \in {[s \in PSlots |-> IF s \in idx THEN y_points[f[s]] ELSE y_points[s]] :
                    f \in perms} : SortedBy(yo)}

Qsort ==
    /\ pc = "sort"
    /\ y_points' \in YOrders
    /\ pc' = "link"
    /\ UNCHANGED <<files, file_index, file_num, num_points, num_edges, num_lines,
                   num_all_lines, mypoints, conn, x_points, all_lines, lines,
                   final_lines, output, iter>>

\* ------------------------------------------------------------ link_points
\* (a slip: a point is connected to itself too)
link_graph_self(n, edges) ==
    [conn |-> [i \in PSlots |-> [j \in PSlots |-> i < n /\ j < n]],
     num_edges |-> edges + Cardinality({<<i, j>> \in (0 .. (n - 1)) \X (0 .. (n - 1)) : i # j})]

\* the connections the two loops set, and the edges they count
link_graph(n, edges) ==
    [conn |-> [i \in PSlots |-> [j \in PSlots |-> i < n /\ j < n /\ i # j]],
     num_edges |-> edges + Cardinality({<<i, j>> \in (0 .. (n - 1)) \X (0 .. (n - 1)) : i # j})]

LinkPoints ==
    /\ pc = "link"
    /\ \E g \in {link_graph(num_points, num_edges)} :
           /\ conn' = g.conn
           /\ num_edges' = g.num_edges
           /\ IF g.num_edges # num_points * (num_points - 1)
                THEN pc' = "exit"
                ELSE pc' = "presep"
    /\ UNCHANGED <<files, file_index, file_num, num_points, num_lines, num_all_lines,
                   mypoints, x_points, y_points, all_lines, lines, final_lines,
                   output, iter>>

\* ------------------------------------------------------------ pre_separate
\* ord[i] of an array of MAX_POINTS pointers; the slots the model does not
\* hold are never written, so they keep the NULL the program starts with
Slot(ord, i) == IF i \in DOMAIN ord THEN ord[i] ELSE NULL

PtCoord(axis, s) == IF axis = V THEN mypoints[s].x ELSE mypoints[s].y

\* one of the two for loops, from index i on.  r is what the loops have
\* written so far; reading through a NULL slot is the fault that ends the run.
\* (r2 is what this round leaves; it is bound so that it is computed once.)
RECURSIVE pre_loop(_, _, _, _, _)
pre_loop(r, axis, ord, i, bound) ==
    IF ~ULess(i, bound) \/ r.fault
    THEN r
    ELSE IF Slot(ord, i) = NULL \/ Slot(ord, i + 1) = NULL
    THEN [r EXCEPT !.fault = TRUE]
    ELSE LET k == r.num_all_lines
             c == PtCoord(axis, ord[i]) + PtCoord(axis, ord[i + 1])
         IN  CHOOSE out \in
                 {pre_loop(r2, axis, ord, i + 1, bound) :
                     r2 \in {[r EXCEPT !.all_lines[k] = [axis |-> axis, coord2 |-> c],
                                       !.lines[k] = k,
                                       !.num_all_lines = k + 1]}} : TRUE

\* i < num_points - 1 compares in unsigned int: for num_points = 0 the bound
\* is 2^32 - 1
pre_separate(al, lns, nal, yo) ==
    LET bound == num_points - 1
        r0 == [all_lines |-> al, lines |-> lns, num_all_lines |-> nal, fault |-> FALSE]
        r1 == pre_loop(r0, V, x_points, 0, bound)
    IN  pre_loop(r1, H, yo, 0, bound)

PreSeparate ==
    /\ pc = "presep"
    /\ \E r \in {pre_separate(all_lines, lines, num_all_lines, y_points)} :
           /\ all_lines' = r.all_lines
           /\ lines' = r.lines
           /\ num_all_lines' = r.num_all_lines
           /\ pc' = IF r.fault THEN "crashed" ELSE "loop"
    /\ UNCHANGED <<files, file_index, file_num, num_points, num_edges, num_lines,
                   mypoints, conn, x_points, y_points, final_lines, output, iter>>

\* ------------------------------------------------------------ closest_point
\* (a slip: the scan never finds a greater coordinate)
closest_point_none(ln, yo) == -1

\* the scan returns at the first position whose coordinate exceeds the line's
closest_point(ln, yo) ==
    LET ord == IF ln.axis = V THEN x_points ELSE yo
        over == {i \in 0 .. (num_points - 1) : 2 * PtCoord(ln.axis, ord[i]) > ln.coord2}
    IN  IF over = {} THEN -1 ELSE Min(over) - 1

\* ------------------------------------------------------------ links_to_break
\* (a slip: the last position of the low side is left out)
links_to_break_short(p, al, cn, yo) ==
    IF p = NULL
    THEN 0
    ELSE LET ln == al[p]
             pt == IF ln.axis = V THEN x_points ELSE yo
         IN  CHOOSE num_links \in
                 {Cardinality({<<i, j>> \in (0 .. (closest - 1)) \X ((closest + 1) .. (num_points - 1)) :
                                  cn[pt[i]][pt[j]]}) :
                     closest \in {closest_point(ln, yo)}} : TRUE

\* p is a pointer into the pool al (a slot, or NULL)
links_to_break(p, al, cn, yo) ==
    IF p = NULL
    THEN 0
    ELSE LET ln == al[p]
             pt == IF ln.axis = V THEN x_points ELSE yo
         IN  CHOOSE num_links \in
                 {Cardinality({<<i, j>> \in (0 .. closest) \X ((closest + 1) .. (num_points - 1)) :
                                  cn[pt[i]][pt[j]]}) :
                     closest \in {closest_point(ln, yo)}} : TRUE

\* ------------------------------------------------------------ unlink_points
\* g = [conn, num_edges]
\* (a slip: one edge is counted for the pair)
unlink_points_one_edge(g, pt1, pt2) ==
    IF g.conn[pt1][pt2]
    THEN [conn |-> [g.conn EXCEPT ![pt1] = [@ EXCEPT ![pt2] = FALSE],
                                  ![pt2] = [@ EXCEPT ![pt1] = FALSE]],
          num_edges |-> g.num_edges - 1]
    ELSE g

\* (a slip: the second connection is left in place)
unlink_points_one_way(g, pt1, pt2) ==
    IF g.conn[pt1][pt2]
    THEN [conn |-> [g.conn EXCEPT ![pt1] = [@ EXCEPT ![pt2] = FALSE]],
          num_edges |-> g.num_edges - 2]
    ELSE g

\* (a slip: the pair is cleared and counted whether or not it was linked)
unlink_points_unguarded(g, pt1, pt2) ==
    [conn |-> [g.conn EXCEPT ![pt1] = [@ EXCEPT ![pt2] = FALSE],
                             ![pt2] = [@ EXCEPT ![pt1] = FALSE]],
     num_edges |-> g.num_edges - 2]

unlink_points(g, pt1, pt2) ==
    IF g.conn[pt1][pt2]
    THEN [conn |-> [g.conn EXCEPT ![pt1] = [@ EXCEPT ![pt2] = FALSE],
                                  ![pt2] = [@ EXCEPT ![pt1] = FALSE]],
          num_edges |-> g.num_edges - 2]
    ELSE g

\* ------------------------------------------------------------ finalize_lines
\* the nested loops over the low and the high positions, from (i, j) on
\* (g2 is the graph after this call of unlink_points, computed once)
RECURSIVE unlink_loop(_, _, _, _, _)
unlink_loop(g, pt, closest, i, j) ==
    IF i > closest
    THEN g
    ELSE IF j >= num_points
    THEN unlink_loop(g, pt, closest, i + 1, closest + 1)
    ELSE CHOOSE out \in
             {unlink_loop(g2, pt, closest, i, j + 1) :
                 g2 \in {unlink_points(g, pt[i], pt[j])}} : TRUE

\* (a slip: the first round of the inner loop starts one position early)
finalize_lines_early(p, al, st, yo) ==
    IF p = NULL
    THEN st
    ELSE LET ln == al[p]
             pt == IF ln.axis = V THEN x_points ELSE yo
         IN  CHOOSE out \in
                 {[conn |-> g.conn,
                   num_edges |-> g.num_edges,
                   final_lines |-> [st.final_lines EXCEPT ![st.num_lines] = p],
                   num_lines |-> st.num_lines + 1] :
                     g \in {unlink_loop([conn |-> st.conn, num_edges |-> st.num_edges],
                                        pt, closest, 0, IF closest > 0 THEN closest ELSE closest + 1) :
                               closest \in {closest_point(ln, yo)}}} : TRUE

\* st = [conn, num_edges, final_lines, num_lines] after finalize_lines(p), p a
\* pointer into the pool al
finalize_lines(p, al, st, yo) ==
    IF p = NULL
    THEN st
    ELSE LET ln == al[p]
             pt == IF ln.axis = V THEN x_points ELSE yo
         IN  CHOOSE out \in
                 {[conn |-> g.conn,
                   num_edges |-> g.num_edges,
                   final_lines |-> [st.final_lines EXCEPT ![st.num_lines] = p],
                   num_lines |-> st.num_lines + 1] :
                     g \in {unlink_loop([conn |-> st.conn, num_edges |-> st.num_edges],
                                        pt, closest, 0, closest + 1) :
                               closest \in {closest_point(ln, yo)}}} : TRUE

\* ------------------------------------------------------------ main, the scan
\* (a slip: an equal score replaces too)
RECURSIVE scan_lines_last(_, _, _, _, _, _, _, _)
scan_lines_last(j, line_index, num_link, nal, lns, al, cn, yo) ==
    IF j >= nal
    THEN line_index
    ELSE CHOOSE out \in
             {IF temp >= num_link
              THEN scan_lines_last(j + 1, j, temp, nal, lns, al, cn, yo)
              ELSE scan_lines_last(j + 1, line_index, num_link, nal, lns, al, cn, yo) :
                 temp \in {links_to_break(lns[j], al, cn, yo)}} : TRUE

\* for (j = 1; j < num_all_lines; j++): a strictly greater score replaces
\* (temp is the score of lines[j], computed once)
RECURSIVE scan_lines(_, _, _, _, _, _, _, _)
scan_lines(j, line_index, num_link, nal, lns, al, cn, yo) ==
    IF j >= nal
    THEN line_index
    ELSE CHOOSE out \in
             {IF temp > num_link
              THEN scan_lines(j + 1, j, temp, nal, lns, al, cn, yo)
              ELSE scan_lines(j + 1, line_index, num_link, nal, lns, al, cn, yo) :
                 temp \in {links_to_break(lns[j], al, cn, yo)}} : TRUE

\* (a slip: the first live candidate is taken, whatever its score)
best_line_first(nal, lns, al, cn, yo) ==
    LET live == {j \in 0 .. (nal - 1) : lns[j] # NULL}
    IN  IF live = {} THEN 0 ELSE Min(live)

\* the index main() hands to finalize_lines
best_line(nal, lns, al, cn, yo) ==
    CHOOSE out \in
        {scan_lines(1, 0, num_link, nal, lns, al, cn, yo) :
            num_link \in {links_to_break(lns[0], al, cn, yo)}} : TRUE

\* (a slip: the committed candidate keeps its place in the pool)
Iterate_keep ==
    /\ pc = "loop"
    /\ ULess(0, num_edges)
    /\ \E line_index \in {best_line(num_all_lines, lines, all_lines, conn, y_points)} :
       \E st \in {finalize_lines(lines[line_index], all_lines,
                                 [conn |-> conn, num_edges |-> num_edges,
                                  final_lines |-> final_lines, num_lines |-> num_lines],
                                 y_points)} :
           /\ conn' = st.conn
           /\ num_edges' = st.num_edges
           /\ final_lines' = st.final_lines
           /\ num_lines' = st.num_lines
           /\ lines' = lines
    /\ iter' = IF iter < IterCap THEN iter + 1 ELSE iter
    /\ UNCHANGED <<files, file_index, file_num, pc, num_points, num_all_lines,
                   mypoints, x_points, y_points, all_lines, output>>

\* one execution of the while body (line_index and the state finalize_lines
\* leaves are each computed once)
Iterate ==
    /\ pc = "loop"
    /\ ULess(0, num_edges)
    /\ \E line_index \in {best_line(num_all_lines, lines, all_lines, conn, y_points)} :
       \E st \in {finalize_lines(lines[line_index], all_lines,
                                 [conn |-> conn, num_edges |-> num_edges,
                                  final_lines |-> final_lines, num_lines |-> num_lines],
                                 y_points)} :
           /\ conn' = st.conn
           /\ num_edges' = st.num_edges
           /\ final_lines' = st.final_lines
           /\ num_lines' = st.num_lines
           /\ lines' = [lines EXCEPT ![line_index] = NULL]
    /\ iter' = IF iter < IterCap THEN iter + 1 ELSE iter
    /\ UNCHANGED <<files, file_index, file_num, pc, num_points, num_all_lines,
                   mypoints, x_points, y_points, all_lines, output>>

\* the while condition fails
LoopExit ==
    /\ pc = "loop"
    /\ ~ULess(0, num_edges)
    /\ pc' = "write"
    /\ UNCHANGED <<files, file_index, file_num, num_points, num_edges, num_lines,
                   num_all_lines, mypoints, conn, x_points, y_points, all_lines,
                   lines, final_lines, output, iter>>

\* ------------------------------------------------------------ write_file
\* "v " or "h ", then the coordinate under %.1f: its whole part and its tenth
format_line(ln) ==
    [axis |-> IF ln.axis = V THEN "v" ELSE "h",
     whole |-> ln.coord2 \div 2,
     tenth |-> 5 * (ln.coord2 % 2)]

WriteFile ==
    /\ pc = "write"
    /\ output' = Append(output,
                        [id |-> file_index,
                         count |-> num_lines,
                         recs |-> [k \in 1 .. num_lines |->
                                      format_line(all_lines[final_lines[k - 1]])]])
    /\ pc' = "restore"
    /\ UNCHANGED <<files, file_index, file_num, num_points, num_edges, num_lines,
                   num_all_lines, mypoints, conn, x_points, y_points, all_lines,
                   lines, final_lines, iter>>

\* ------------------------------------------------------------ restore
\* restore(), then file_num++ and the for loop's file_index++
Restore ==
    /\ pc = "restore"
    /\ conn' = [i \in PSlots |-> [j \in PSlots |-> FALSE]]
    /\ num_points' = 0
    /\ num_lines' = 0
    /\ num_edges' = 0
    /\ num_all_lines' = 0
    /\ file_num' = file_num + 1
    /\ file_index' = NextIndex
    /\ pc' = "read"
    /\ UNCHANGED <<files, mypoints, x_points, y_points, all_lines, lines,
                   final_lines, output, iter>>

\* the for loop ends
Exit ==
    /\ pc = "read"
    /\ file_index >= MAX_POINTS
    /\ pc' = "end"
    /\ UNCHANGED <<files, file_index, file_num, num_points, num_edges, num_lines,
                   num_all_lines, mypoints, conn, x_points, y_points, all_lines,
                   lines, final_lines, output, iter>>

Next ==
    \/ ReadFile
    \/ Qsort
    \/ LinkPoints
    \/ PreSeparate
    \/ Iterate
    \/ LoopExit
    \/ WriteFile
    \/ Restore
    \/ Exit

Spec == Init /\ [][Next]_vars

\* runs on valid instances of up to MaxWideN points
SpecWide == InitWide /\ [][Next]_vars

\* runs that may break the input contract (repeated points, x not ascending)
SpecAny == InitAny /\ [][Next]_vars

\* instances a run may have processed before the one looked at: one that is
\* solved, and the ones the reader turns down
Earlier ==
    {DataFile(3, <<[x |-> 0, y |-> 2], [x |-> 1, y |-> 0], [x |-> 2, y |-> 1]>>)}
        \cup RejectedFiles

\* the directory holds the same file as instance 1 and as instance 3, and
\* another instance between them
InitSeq ==
    /\ files \in {<<f, e, f>> : <<f, e>> \in (ValidFiles \cup RejectedFiles) \X Earlier}
    /\ InitGlobals

\* runs over three instance files
SpecSeq == InitSeq /\ [][Next]_vars

\* main() is sequential: once in the while loop, its body runs while the
\* condition holds and the loop is left when it fails
FairSpec == Init /\ [][Next]_vars /\ WF_vars(Iterate) /\ WF_vars(LoopExit)

\* ------------------------------------------------------------ properties
TypeOK ==
    /\ pc \in {"read", "sort", "link", "presep", "loop", "write", "restore",
               "end", "exit", "crashed"}
    /\ num_points \in 0 .. Cap
    /\ num_lines \in 0 .. (2 * Cap)
    /\ num_all_lines \in 0 .. (2 * Cap)
    /\ x_points \in [PSlots -> PSlots \cup {NULL}]
    /\ y_points \in [PSlots -> PSlots \cup {NULL}]
    /\ lines \in [LSlots -> LSlots \cup {NULL}]
    /\ final_lines \in [LSlots -> LSlots \cup {NULL}]
    /\ iter \in 0 .. IterCap

\* two distinct points of the instance are still linked
Linked(i, j) == i # j /\ conn[i][j]

\* C1: for a valid input, when the main loop completes num_edges is 0 and no
\* pair of distinct points is linked in either direction
C1_LoopEndsUnlinked ==
    (pc = "write" /\ ValidInstance) =>
        /\ num_edges = 0
        /\ \A i, j \in 0 .. (num_points - 1) : ~Linked(i, j)

C1_Witness ==
    /\ pc = "write"
    /\ ValidInstance
    /\ num_points = 3
    /\ num_lines = 2
    /\ num_edges = 0

\* C2: for a valid input of n points the main loop halts, after at most
\* 2*(n-1) executions of its body, and no execution of the body leaves the
\* pool, the link graph and the solution all unchanged
C2_Terminates ==
    /\ [](((pc = "loop" \/ pc = "write") /\ ValidInstance) => iter <= 2 * (num_points - 1))
    /\ ((pc = "loop" /\ ValidInstance) ~> (pc = "write"))
    /\ [][(pc = "loop" /\ pc' = "loop" /\ ValidInstance) =>
            (lines' # lines \/ conn' # conn \/ final_lines' # final_lines
                \/ num_lines' # num_lines)]_vars

C2_Witness ==
    /\ pc = "write"
    /\ ValidInstance
    /\ num_points = 3
    /\ iter = 2

\* C3: pre_separate leaves exactly 2*(n-1) candidates for n >= 2 and none for
\* n <= 1, n = 0 included; for n <= 1 it reads and writes no slot (so it does
\* not fault), the main loop is not entered and no line is committed
C3_CandidateCount ==
    (pc \in {"loop", "crashed"}) =>
        /\ num_points >= 2 => (pc = "loop" /\ num_all_lines = 2 * (num_points - 1))
        /\ num_points <= 1 =>
              (pc = "loop" /\ num_all_lines = 0 /\ iter = 0 /\ num_lines = 0)

\* the four points of p are the corners of an axis-aligned square
IsSquare(p) ==
    /\ Len(p) = 4
    /\ \E a, b \in 0 .. MaxCoord, side \in 1 .. MaxCoord :
          {p[i] : i \in 1 .. 4} =
              {[x |-> a, y |-> b], [x |-> a, y |-> b + side],
               [x |-> a + side, y |-> b], [x |-> a + side, y |-> b + side]}

\* the two bisectors of the square p, as write_file prints them
Bisectors(p) ==
    LET xs == {p[i].x : i \in 1 .. 4}
        ys == {p[i].y : i \in 1 .. 4}
    IN  {format_line([axis |-> V, coord2 |-> Min(xs) + (CHOOSE m \in xs : m # Min(xs))]),
         format_line([axis |-> H, coord2 |-> Min(ys) + (CHOOSE m \in ys : m # Min(ys))])}

\* the file write_file wrote for the instance at hand
LastOutput == output[Len(output)]

\* C4: for the four corners of an axis-aligned square the solution is exactly
\* two lines, the vertical and the horizontal bisector of the square
C4_SquareBisected ==
    (pc = "restore" /\ ValidInstance /\ IsSquare(Cur.pts)) =>
        /\ LastOutput.count = 2
        /\ {LastOutput.recs[k] : k \in 1 .. LastOutput.count} = Bisectors(Cur.pts)

\* the committed lines, oldest first
Committed == [k \in 1 .. num_lines |-> all_lines[final_lines[k - 1]]]

\* C5: for a valid input no committed line has the coordinate, on its axis, of
\* an input point (a candidate of a zero-width adjacency is never committed)
C5_NoCoincidentLine ==
    (pc \in {"loop", "write", "restore"} /\ ValidInstance) =>
        \A k \in 1 .. num_lines : \A s \in 0 .. (num_points - 1) :
            2 * PtCoord(Committed[k].axis, s) # Committed[k].coord2

\* no candidate of the pool would break a link
NoPositiveScore ==
    \A j \in 0 .. (num_all_lines - 1) :
        links_to_break(lines[j], all_lines, conn, y_points) = 0

\* C6: when links remain and no live candidate has a positive score, the
\* instance ends in an error: the loop is left, nothing is committed and no
\* solution is written
C6_PoolExhaustionSurfaced ==
    [][(pc = "loop" /\ ULess(0, num_edges) /\ NoPositiveScore) =>
          (pc' \notin {"loop", "write"} /\ num_lines' = num_lines /\ output' = output)]_vars

\* link_points never finds a count other than n*(n-1): num_edges is 0 whenever
\* it starts, so its exit(0) is not reached
MismatchUnreachable == pc # "exit"

\* the score of pool position j in the current state
Score(j) == links_to_break(lines[j], all_lines, conn, y_points)

\* the step is one execution of the while body
IterateStep == pc = "loop" /\ pc' = "loop"

\* C8: num_edges never grows from one iteration to the next, and on a valid
\* input every iteration commits a candidate whose score, when chosen, is at
\* least 1, and lowers num_edges by exactly twice that score
C8_EdgesDecrease ==
    [][IterateStep =>
          /\ ~ULess(num_edges, num_edges')
          /\ ValidInstance =>
                /\ \E j \in 0 .. (num_all_lines - 1) : lines[j] # NULL /\ Score(j) >= 1
                /\ num_lines' = num_lines + 1
                /\ LET chosen == final_lines'[num_lines]
                   IN  /\ chosen # NULL
                       /\ lines[chosen] = chosen
                       /\ Score(chosen) >= 1
                       /\ num_edges' = num_edges - 2 * Score(chosen)]_vars

C8_Witness ==
    /\ pc = "loop"
    /\ ValidInstance
    /\ num_lines = 1
    /\ num_edges = 2
    /\ num_points = 3

\* the pool holds the vertical candidates in x-adjacency order, then the
\* horizontal ones in y-adjacency order
PoolInOrder ==
    \A i \in 0 .. (num_points - 2) :
        /\ all_lines[i] = [axis |-> V,
                           coord2 |-> mypoints[x_points[i]].x + mypoints[x_points[i + 1]].x]
        /\ all_lines[num_points - 1 + i] =
              [axis |-> H,
               coord2 |-> mypoints[y_points[i]].y + mypoints[y_points[i + 1]].y]

\* C9: the candidate an iteration commits is live, no live candidate has a
\* greater score, and no live candidate of the same score comes before it in
\* the pool (vertical candidates first, then horizontal); for (0,0),(2,2) the
\* solution is exactly the vertical line 1.0
C9_GreedyChoice ==
    /\ [](pc = "loop" => PoolInOrder)
    /\ [][(IterateStep /\ num_lines' # num_lines) =>
            LET chosen == final_lines'[num_lines]
            IN  /\ num_lines' = num_lines + 1
                /\ chosen \in 0 .. (num_all_lines - 1)
                /\ lines[chosen] = chosen
                /\ lines'[chosen] = NULL
                /\ \A j \in 0 .. (num_all_lines - 1) :
                      lines[j] # NULL =>
                          /\ Score(j) <= Score(chosen)
                          /\ Score(j) = Score(chosen) => chosen <= j]_vars
    /\ []((pc = "restore" /\ Cur.pts = <<[x |-> 0, y |-> 0], [x |-> 2, y |-> 2]>>) =>
            LastOutput.recs = <<[axis |-> "v", whole |-> 1, tenth |-> 0]>>)

C9_Witness ==
    /\ pc = "restore"
    /\ Cur.pts = <<[x |-> 0, y |-> 0], [x |-> 2, y |-> 2]>>
    /\ LastOutput.count = 1
    /\ all_lines[1] = [axis |-> H, coord2 |-> 2]

\* the loop of main() run on its own from the state st with the pool lns
RECURSIVE solve_loop(_, _, _, _, _, _)
solve_loop(st, lns, al, nal, yo, fuel) ==
    IF ~ULess(0, st.num_edges) \/ fuel = 0
    THEN st
    ELSE LET line_index == best_line(nal, lns, al, st.conn, yo)
         IN  solve_loop(finalize_lines(lns[line_index], al, st, yo),
                        [lns EXCEPT ![line_index] = NULL], al, nal, yo, fuel - 1)

\* what the program prints for the points at hand when qsort leaves the order yo
Solution(yo) ==
    LET g == link_graph(num_points, 0)
        r == pre_separate(all_lines, lines, 0, yo)
        st == solve_loop([conn |-> g.conn, num_edges |-> g.num_edges,
                          final_lines |-> final_lines, num_lines |-> 0],
                         r.lines, r.all_lines, r.num_all_lines, yo, IterCap)
    IN  [k \in 1 .. st.num_lines |-> format_line(r.all_lines[st.final_lines[k - 1]])]

\* C10: the solution written depends on the ordered point list alone: it is
\* the same for every ascending-by-y order qsort may leave
C10_OrderIndependent ==
    (pc = "restore") => \A yo \in YOrders : Solution(yo) = LastOutput.recs

C10_Witness ==
    /\ pc = "restore"
    /\ Cardinality(YOrders) >= 2
    /\ LastOutput.count = 2
    /\ \E yo \in YOrders : yo # y_points /\ Solution(yo) = LastOutput.recs

\* C11: the number of committed lines is at least 0 and at most 2*(n-1), and 0
\* when n <= 1; the committed pool entries are pairwise distinct and each is
\* consumed (its pool pointer is NULL); a consumed entry stays consumed and is
\* not committed by a later iteration
C11_CommitOnce ==
    /\ [](/\ num_lines >= 0
          /\ num_points <= 1 => num_lines = 0
          /\ num_points >= 2 => num_lines <= 2 * (num_points - 1)
          /\ \A a, b \in 0 .. (num_lines - 1) : a # b => final_lines[a] # final_lines[b]
          /\ \A a \in 0 .. (num_lines - 1) :
                /\ final_lines[a] \in 0 .. (num_all_lines - 1)
                /\ lines[final_lines[a]] = NULL)
    /\ [][IterateStep =>
            \A j \in 0 .. (num_all_lines - 1) :
                lines[j] = NULL =>
                    /\ lines'[j] = NULL
                    /\ num_lines' # num_lines => final_lines'[num_lines] # j]_vars

C11_Witness ==
    /\ pc = "loop"
    /\ num_points = 3
    /\ num_lines = 2
    /\ final_lines[0] # final_lines[1]
    /\ lines[final_lines[0]] = NULL
    /\ lines[final_lines[1]] = NULL
    /\ \E j \in 0 .. (num_all_lines - 1) : lines[j] # NULL

\* the link graph of the instance at hand, as unlink_points takes it
Graph == [conn |-> conn, num_edges |-> num_edges]

\* the graph exists: link_points has run and restore has not
GraphLive == pc \in {"presep", "loop", "write", "restore"}

\* C12: on an active pair unlink_points clears both directions, lowers
\* num_edges by exactly 2 and touches no other entry; on a pair that is not
\* active (i = j included) it changes neither the graph nor num_edges; after
\* one call a second call, in either argument order, changes nothing
C12_UnlinkIdempotent ==
    GraphLive =>
        \A i, j \in 0 .. (num_points - 1) :
            LET g1 == unlink_points(Graph, i, j)
            IN  /\ conn[i][j] =>
                      /\ ~g1.conn[i][j]
                      /\ ~g1.conn[j][i]
                      /\ g1.num_edges = num_edges - 2
                      /\ \A a, b \in PSlots :
                            {a, b} # {i, j} => g1.conn[a][b] = conn[a][b]
                /\ ~conn[i][j] => g1 = Graph
                /\ i = j => g1 = Graph
                /\ unlink_points(g1, i, j) = g1
                /\ unlink_points(g1, j, i) = g1

C12_Witness ==
    /\ pc = "loop"
    /\ num_points = 3
    /\ \E i, j \in 0 .. 2 : i # j /\ conn[i][j]
                            /\ unlink_points(Graph, i, j).num_edges = num_edges - 2
    /\ \E i, j \in 0 .. 2 : i # j /\ ~conn[i][j] /\ unlink_points(Graph, j, i) = Graph

\* the positions of the ascending order of ln's axis whose point has a
\* coordinate <= ln's coordinate
LowSide(ln) ==
    LET ord == IF ln.axis = V THEN x_points ELSE y_points
    IN  {i \in 0 .. (num_points - 1) : 2 * PtCoord(ln.axis, ord[i]) <= ln.coord2}

\* C13: for every candidate line closest_point returns the largest position
\* of the ascending order of the line's axis whose point has a coordinate <=
\* the line's, and -1 only when there is no such point; for a line at or past
\* every point it returns n-1
C13_ClosestSplitIndex ==
    (pc = "loop" /\ ValidInstance) =>
        \A j \in 0 .. (num_all_lines - 1) :
            LET ln == all_lines[j]
                low == LowSide(ln)
            IN  closest_point(ln, y_points) =
                    IF low = {} THEN -1
                    ELSE CHOOSE m \in low : \A k \in low : k <= m

\* the active links that cross ln: the pairs of points, one at or below ln's
\* coordinate on ln's axis and one above it, that are still linked
Crossing(ln) ==
    {<<p, q>> \in (0 .. (num_points - 1)) \X (0 .. (num_points - 1)) :
        /\ conn[p][q]
        /\ 2 * PtCoord(ln.axis, p) <= ln.coord2
        /\ 2 * PtCoord(ln.axis, q) > ln.coord2}

\* C14: in every state of the main loop links_to_break of a candidate line is
\* the number of active links with one end at or below the line's coordinate
\* and the other end above it, and links_to_break(NULL) is 0
C14_ScoreCountsCrossing ==
    (pc = "loop" /\ ValidInstance) =>
        /\ links_to_break(NULL, all_lines, conn, y_points) = 0
        /\ \A j \in 0 .. (num_all_lines - 1) :
              /\ links_to_break(j, all_lines, conn, y_points) =
                    Cardinality(Crossing(all_lines[j]))
              /\ lines[j] = NULL => Score(j) = 0

C14_Witness ==
    /\ pc = "loop"
    /\ ValidInstance
    /\ num_points = 3
    /\ \E j \in 0 .. (num_all_lines - 1) : lines[j] = NULL /\ Score(j) = 0
    /\ \E j \in 0 .. (num_all_lines - 1) :
          lines[j] # NULL /\ Score(j) = 1 /\ Cardinality(Crossing(all_lines[j])) = 1

\* ln has p and q on opposite sides: one at or below its coordinate, the
\* other above it
Separates(ln, p, q) ==
    (2 * PtCoord(ln.axis, p) <= ln.coord2) # (2 * PtCoord(ln.axis, q) <= ln.coord2)

\* C15: between iterations two distinct points are linked exactly when no
\* committed line has them on opposite sides; an iteration that commits a line
\* removes exactly the links that cross it and leaves every other link, the
\* points and both sorted orders unchanged
C15_LinkedIffUnseparated ==
    /\ []((pc \in {"loop", "write"} /\ ValidInstance) =>
            \A p, q \in 0 .. (num_points - 1) :
                p # q =>
                    (conn[p][q] <=>
                        ~\E k \in 1 .. num_lines : Separates(Committed[k], p, q)))
    /\ [][(IterateStep /\ ValidInstance) =>
            /\ num_lines' = num_lines + 1
            /\ LET ln == all_lines[final_lines'[num_lines]]
               IN  \A p, q \in 0 .. (num_points - 1) :
                       conn'[p][q] = (conn[p][q] /\ ~Separates(ln, p, q))
            /\ mypoints' = mypoints
            /\ x_points' = x_points
            /\ y_points' = y_points]_vars

C15_Witness ==
    /\ pc = "loop"
    /\ ValidInstance
    /\ num_points = 3
    /\ num_lines = 1
    /\ \E p, q \in 0 .. 2 : p # q /\ conn[p][q] /\ ~Separates(Committed[1], p, q)
    /\ \E p, q \in 0 .. 2 : p # q /\ ~conn[p][q] /\ Separates(Committed[1], p, q)

\* the directed entries of the connection matrix that are set, among the
\* num_points points
ActiveEntries ==
    {<<i, j>> \in (0 .. (num_points - 1)) \X (0 .. (num_points - 1)) : conn[i][j]}

\* C16: the link relation is symmetric and irreflexive; num_edges is the
\* number of set directed entries, which is even, and is n*(n-1) right after
\* link_points; past link_points no entry that is clear is ever set again
C16_GraphWellFormed ==
    /\ [](/\ \A i, j \in PSlots : conn[i][j] = conn[j][i]
          /\ \A i \in PSlots : ~conn[i][i]
          /\ num_edges = Cardinality(ActiveEntries)
          /\ num_edges % 2 = 0
          /\ pc = "presep" =>
                /\ num_edges = num_points * (num_points - 1)
                /\ \A i, j \in 0 .. (num_points - 1) : i # j => conn[i][j])
    /\ [][pc # "link" => \A i, j \in PSlots : conn'[i][j] => conn[i][j]]_vars

C16_Witness ==
    /\ pc = "loop"
    /\ num_points = 3
    /\ Cardinality(ActiveEntries) = 2
    /\ \E i, j \in 0 .. 2 : i # j /\ conn[i][j] /\ conn[j][i]
    /\ \E i, j \in 0 .. 2 : i # j /\ ~conn[i][j] /\ ~conn[j][i]

\* C18: for a valid input of n >= 1 points the number of committed lines
\* never exceeds n-1, so num_lines stays below MAX_POINTS, the capacity of
\* final_lines, while the pool holds 2*(n-1) candidates; being linked stays
\* transitive among the points
C18_SolutionFits ==
    (pc \in {"loop", "write", "restore"} /\ ValidInstance /\ num_points >= 1) =>
        /\ num_lines <= num_points - 1
        /\ num_lines < MAX_POINTS
        /\ num_all_lines = 2 * (num_points - 1)
        /\ \A p, q, r \in 0 .. (num_points - 1) :
              (Linked(p, q) /\ Linked(q, r) /\ p # r) => Linked(p, r)

C18_Witness ==
    /\ pc = "write"
    /\ ValidInstance
    /\ num_points = 3
    /\ num_all_lines = 4
    /\ num_lines = num_points - 1
    /\ final_lines[num_lines - 1] # NULL

\* main() is between two instances, or past the last one
BetweenInstances == (pc = "read" /\ file_index > 1) \/ pc = "end"

\* the four counters restore() clears
CountersZero ==
    /\ num_points = 0
    /\ num_edges = 0
    /\ num_lines = 0
    /\ num_all_lines = 0

\* the file written for instance 3 holds the lines written for instance 1,
\* the same file, whatever instance 2 was
SolvedAgain ==
    (pc = "restore" /\ file_index = 3 /\ files[3] = files[1]) =>
        /\ output[1].id = 1
        /\ LastOutput.count = output[1].count
        /\ LastOutput.recs = output[1].recs

\* C17: no state carries over between instances: once an instance is done
\* with (solved, or turned down by the reader) num_points, num_edges,
\* num_lines and num_all_lines are all 0, and an instance processed after
\* others gets the solution it gets as the first instance
C17_NoCarryOver ==
    /\ BetweenInstances => CountersZero
    /\ SolvedAgain

====
